---- MODULE Spec2Model ----
(***************************************************************************)
(* A model of the sokoban game of src/main.rs: the level loader, the move  *)
(* engine (move_bunny and its non-mutating twin move_bunny_solve), the win *)
(* evaluator, undo / reset, the breadth-first autosolver and the main      *)
(* control loop.                                                           *)
(*                                                                         *)
(* Rust vectors whose indices carry meaning (bunnies, the board, the       *)
(* solver's arena `states`) are functions over 0..n-1, so that             *)
(* PLAYER_INDEX is 0 and the arena's root is index 0 as in the source.     *)
(* Vectors used only as stacks or queues (history, queue, path) are        *)
(* sequences.  A Bunny (usize, usize) is a pair <<row, column>>.           *)
(***************************************************************************)
EXTENDS Integers, Sequences, FiniteSets, TLC

\* ------------------------------------------------------------------ bounds

\* the longest undo history the model lets a session build
MaxHistory == 3
\* the move counter past which no further command is modelled
MaxMoveNo == 2
\* solve(state, max_moves, max_iters) is called with max_moves in 0..MaxMovesArg
MaxMovesArg == 3
\* ... and with max_iters in 0..MaxItersArg
MaxItersArg == 3

\* ------------------------------------------------------- program constants

PLAYER_INDEX == 0
MAX_MOVES == 150
MAX_ITERS == 5000000

\* enum Move, in the order of the solver's expansion loop
Moves == <<"Up", "Down", "Left", "Right">>
MoveSet == {Moves[i] : i \in 1..4}

\* Option<T>
None == [is_some |-> FALSE]
Some(x) == [is_some |-> TRUE, val |-> x]

\* ------------------------------------------------------------ Vec helpers

\* v.len() of a vector held as a function over 0..n-1
VLen(v) == Cardinality(DOMAIN v)
\* v.push(x)
VPush(v, x) == [i \in 0..VLen(v) |-> IF i < VLen(v) THEN v[i] ELSE x]
\* the empty vector
VEmpty == [i \in {} |-> 0]
\* the last element of a non-empty sequence, and the sequence without it
Last(s) == s[Len(s)]
Front(s) == SubSeq(s, 1, Len(s) - 1)
\* s.reverse() of a sequence
Reverse(s) == [i \in 1..Len(s) |-> s[Len(s) + 1 - i]]

\* ------------------------------------------------------------------ state

VARIABLES
    PUSH_MULTIPLE,  \* the pushing policy the program was built with
    state,          \* main's `state`: the State struct
    pc,             \* where main is: "keys", "replay" or "exited"
    soln,           \* the rest of the solution being replayed by the 's' branch
    last,           \* the last command: its key, move_bunny's return value, the State before it
    sv              \* the locals of a call of State::solve (SolveSpec)

vars == <<PUSH_MULTIPLE, state, pc, soln, last, sv>>

\* ------------------------------------------------------------ level files

\* levels/1.txt: the one-push level (player, sleepy, bed in a corridor)
Level1 == << <<"#", "#", "#", "#", "#">>,
             <<"#", "@", "$", ".", "#">>,
             <<"#", "#", "#", "#", "#">> >>
\* levels/2.txt: two sleepies in a row in front of the player, one in bed
Level2 == << <<"#", "#", "#", "#", "#", "#">>,
             <<"#", "@", "$", "*", ".", "#">>,
             <<"#", "#", "#", "#", "#", "#">> >>
\* levels/3.txt: a room with two beds and one sleepy, in this game's letters
Level3 == << <<"T", "T", "T", "T", "T", "T">>,
             <<"T", "b", " ", " ", "_", "T">>,
             <<"T", " ", " ", "s", "_", "T">>,
             <<"T", "T", "T", "T", "T", "T">> >>
\* the level files present under levels/, by level number
LevelFiles == <<Level1, Level2, Level3>>
LevelExists(level_no) == level_no \in 1..Len(LevelFiles)

\* ----------------------------------------------------------- from_file

\* n_columns: the longest row
NColumns(board_rows) ==
    IF Len(board_rows) = 0 THEN 0 ELSE
    CHOOSE n \in {Len(board_rows[i]) : i \in 1..Len(board_rows)} :
        \A i \in 1..Len(board_rows) : Len(board_rows[i]) <= n

\* row.resize(n_columns, b' ') for every row; rows and columns from 0
BoardRaw(board_rows) ==
    [i \in 0..(Len(board_rows) - 1) |->
        [j \in 0..(NColumns(board_rows) - 1) |->
            IF j + 1 <= Len(board_rows[i + 1]) THEN board_rows[i + 1][j + 1] ELSE " "]]

KnownChars == {"#", "T", " ", "@", "b", "$", "s", ".", "_", "+", "p", "*", "z"}

\* the tile a character stands for
TileOf(ch) ==
    IF ch \in {"#", "T"} THEN "Tree"
    ELSE IF ch \in {" ", "@", "b", "$", "s"} THEN "Grass"
    ELSE "Bed"

\* the cells of the board in the order of the second pass (row by row)
ScanOrder(raw) ==
    LET n_rows == VLen(raw)
        n_columns == IF n_rows = 0 THEN 0 ELSE VLen(raw[0])
    IN [k \in 1..(n_rows * n_columns) |->
            <<(k - 1) \div n_columns, (k - 1) % n_columns>>]

\* State::from_file: Ok(State) or the error of bail!
from_file(board_rows, level_no) ==
    LET raw == BoardRaw(board_rows)
        cells == ScanOrder(raw)
        IsSleepy(p) == raw[p[1]][p[2]] \in {"$", "s", "*", "z"}
        IsPlayer(p) == raw[p[1]][p[2]] \in {"@", "b", "+", "p"}
        pushed == SelectSeq(cells, IsSleepy)
        players == SelectSeq(cells, IsPlayer)
        player == IF Len(players) = 0 THEN <<0, 0>> ELSE Last(players)
        \* bunnies.push(player); bunnies.reverse()
        all == Reverse(Append(pushed, player))
        bunnies == [i \in 0..(Len(all) - 1) |-> all[i + 1]]
    IN IF Len(board_rows) = 0
       THEN [ok |-> FALSE]      \* "should be at least one column"
       ELSE IF \E k \in 1..Len(cells) : raw[cells[k][1]][cells[k][2]] \notin KnownChars
       THEN [ok |-> FALSE]
       ELSE [ok |-> TRUE,
             state |->
               [board |-> [i \in DOMAIN raw |-> [j \in DOMAIN raw[i] |-> TileOf(raw[i][j])]],
                bunnies |-> bunnies,
                bunny_starts |-> bunnies,
                beds |-> {cells[k] : k \in {k \in 1..Len(cells) :
                              raw[cells[k][1]][cells[k][2]] \in {".", "_", "+", "p", "*", "z"}}},
                level_no |-> level_no,
                move_no |-> 0,
                history |-> <<>>,
                won |-> FALSE]]

\* State::from_level_no: the file levels/{level_no}.txt, an error if absent
from_level_no(level_no) ==
    IF LevelExists(level_no) THEN from_file(LevelFiles[level_no], level_no)
    ELSE [ok |-> FALSE]

\* ------------------------------------------------------------ move engine

\* the destination of a move; saturating_sub stops at 0 (saturating_add
\* stops at usize::MAX, which no board of a level file reaches)
Dest(bunny, m) ==
    IF m = "Up" THEN <<IF bunny[1] = 0 THEN 0 ELSE bunny[1] - 1, bunny[2]>>
    ELSE IF m = "Down" THEN <<bunny[1] + 1, bunny[2]>>
    ELSE IF m = "Left" THEN <<bunny[1], IF bunny[2] = 0 THEN 0 ELSE bunny[2] - 1>>
    ELSE <<bunny[1], bunny[2] + 1>>

\* board.get(dest.0).is_none() || board[dest.0].get(dest.1).is_none()
OutOfBounds(board, dest) ==
    \/ dest[1] \notin DOMAIN board
    \/ dest[2] \notin DOMAIN board[dest[1]]

\* Position that looks at the player's slot only: a sleepy is never found
PositionPlayerOnly(bunnies, dest) ==
    IF bunnies[PLAYER_INDEX] = dest THEN Some(PLAYER_INDEX) ELSE None

\* bunnies.iter().position(|bunny| dest == *bunny): the first index at dest
Position(bunnies, dest) ==
    LET at == {i \in DOMAIN bunnies : bunnies[i] = dest}
    IN IF at = {} THEN None
       ELSE Some(CHOOSE i \in at : \A j \in at : i <= j)

\* PushRefused without the policy: any bunny may push
PushRefusedNever(bunny_index) == FALSE

\* !PUSH_MULTIPLE && bunny_index != PLAYER_INDEX: a sleepy may not push
PushRefused(bunny_index) == ~PUSH_MULTIPLE /\ bunny_index # PLAYER_INDEX

\* Commit with the snapshot taken after the push instead of before it
CommitLateSnapshot(self, bunny_index, dest, current_state) ==
    LET moved == [self EXCEPT !.bunnies[bunny_index] = dest]
    IN IF bunny_index = PLAYER_INDEX
       THEN [moved EXCEPT
               !.history = Append(self.history,
                                  [move_no |-> self.move_no, bunnies |-> self.bunnies]),
               !.move_no = self.move_no + 1]
       ELSE moved

\* the commit of move_bunny: the history entry and the counter for the
\* player, then the bunny's new position
Commit(self, bunny_index, dest, current_state) ==
    LET moved == [self EXCEPT !.bunnies[bunny_index] = dest]
    IN IF bunny_index = PLAYER_INDEX
       THEN [moved EXCEPT
               !.history = Append(self.history,
                                  [move_no |-> self.move_no, bunnies |-> current_state]),
               !.move_no = self.move_no + 1]
       ELSE moved

\* Rejected with the attempt counted as a move
RejectedCounted(self) ==
    [ret |-> FALSE, self |-> [self EXCEPT !.move_no = self.move_no + 1]]

\* `return false` / `=> false`: the State is handed back as it is
Rejected(self) == [ret |-> FALSE, self |-> self]

\* State::move_bunny(&mut self, bunny_index, m): the value returned and the
\* State as the call leaves it (a failed call returns the State as its
\* sub-call left it: nothing is rolled back)
RECURSIVE move_bunny(_, _, _)
move_bunny(self, bunny_index, m) ==
    LET bunny == self.bunnies[bunny_index]
        dest == Dest(bunny, m)
    IN IF OutOfBounds(self.board, dest) THEN Rejected(self)
       ELSE IF self.board[dest[1]][dest[2]] = "Tree" THEN Rejected(self)
       ELSE
         LET current_state == self.bunnies
             in_the_way == Position(self.bunnies, dest)
         IN IF in_the_way.is_some
            THEN IF PushRefused(bunny_index) THEN Rejected(self)
                 ELSE LET sub == move_bunny(self, in_the_way.val, m)
                      IN IF ~sub.ret THEN Rejected(sub.self)
                         ELSE [ret |-> TRUE,
                               self |-> Commit(sub.self, bunny_index, dest, current_state)]
            ELSE [ret |-> TRUE, self |-> Commit(self, bunny_index, dest, current_state)]

\* check_win as "all beds have sleepy bunnies in them"
check_win_all_beds(self) ==
    [self EXCEPT !.won = \A bed \in self.beds :
                            \E i \in (DOMAIN self.bunnies) \ {0} : self.bunnies[i] = bed]

\* State::check_win: all sleepies (slots 1..) in a bed
check_win(self) ==
    [self EXCEPT !.won = \A i \in (DOMAIN self.bunnies) \ {0} : self.bunnies[i] \in self.beds]

\* display: refresh the win flag, then print
display(self) == check_win(self)

\* move_bunny_solve building its result from the vector it was given, not
\* from the vector its sub-call returned
RECURSIVE move_bunny_solve_stale(_, _, _, _)
move_bunny_solve_stale(self, bunnies, bunny_index, m) ==
    LET bunny == bunnies[bunny_index]
        dest == Dest(bunny, m)
    IN IF self.board[dest[1]][dest[2]] = "Tree" THEN None
       ELSE
         LET in_the_way == Position(bunnies, dest)
         IN IF in_the_way.is_some
            THEN IF PushRefused(bunny_index) THEN None
                 ELSE LET sub == move_bunny_solve_stale(self, bunnies, in_the_way.val, m)
                      IN IF sub.is_some
                         THEN Some([bunnies EXCEPT ![bunny_index] = dest])
                         ELSE None
            ELSE Some([bunnies EXCEPT ![bunny_index] = dest])

\* State::move_bunny_solve(&self, bunnies, bunny_index, m): Option<Vec<Bunny>>.
\* There is no bounds check: self.board[dest.0][dest.1] is read directly.
RECURSIVE move_bunny_solve(_, _, _, _)
move_bunny_solve(self, bunnies, bunny_index, m) ==
    LET bunny == bunnies[bunny_index]
        dest == Dest(bunny, m)
    IN IF self.board[dest[1]][dest[2]] = "Tree" THEN None
       ELSE
         LET in_the_way == Position(bunnies, dest)
         IN IF in_the_way.is_some
            THEN IF PushRefused(bunny_index) THEN None
                 ELSE LET sub == move_bunny_solve(self, bunnies, in_the_way.val, m)
                      IN IF sub.is_some
                         THEN Some([sub.val EXCEPT ![bunny_index] = dest])
                         ELSE None
            ELSE Some([bunnies EXCEPT ![bunny_index] = dest])

\* State::check_win_solve
check_win_solve(self, bunnies) ==
    \A i \in (DOMAIN bunnies) \ {0} : bunnies[i] \in self.beds

\* ----------------------------------------------------------------- solver

\* the locals of solve before its loop.  `exit` and `expanded` are not
\* locals of the source: they record how the loop was left and the arena
\* indices whose children were generated.
solve_start(self, max_moves, max_iters) ==
    [pc |-> "loop",
     max_moves |-> max_moves,
     max_iters |-> max_iters,
     states |-> VPush(VEmpty, self.bunnies),
     visited |-> [b \in {self.bunnies} |-> 0],
     queue |-> <<0>>,
     parents |-> [i \in {} |-> 0],
     depths |-> [i \in {0} |-> 1],
     iters |-> 0,
     winning_index_opt |-> None,
     exit |-> "none",
     expanded |-> {}]

\* map.insert(k, v)
Insert(map, k, v) == [x \in (DOMAIN map) \cup {k} |-> IF x = k THEN v ELSE map[x]]

\* Discover with the parent recorded as the arena's previous entry
DiscoverWrongParent(s, candidate_state, new_index) ==
    LET candidate_index == VLen(s.states)
    IN [s EXCEPT
          !.states = VPush(s.states, candidate_state),
          !.visited = Insert(s.visited, candidate_state, candidate_index),
          !.queue = Append(s.queue, candidate_index),
          !.parents = Insert(s.parents, candidate_index, candidate_index - 1),
          !.depths = Insert(s.depths, candidate_index, s.depths[new_index] + 1)]

\* Discover without the insert into visited
DiscoverUnrecorded(s, candidate_state, new_index) ==
    LET candidate_index == VLen(s.states)
    IN [s EXCEPT
          !.states = VPush(s.states, candidate_state),
          !.queue = Append(s.queue, candidate_index),
          !.parents = Insert(s.parents, candidate_index, new_index),
          !.depths = Insert(s.depths, candidate_index, s.depths[new_index] + 1)]

\* the body of `if !visited.contains_key(&candidate_state)`
Discover(s, candidate_state, new_index) ==
    LET candidate_index == VLen(s.states)
    IN [s EXCEPT
          !.states = VPush(s.states, candidate_state),
          !.visited = Insert(s.visited, candidate_state, candidate_index),
          !.queue = Append(s.queue, candidate_index),
          !.parents = Insert(s.parents, candidate_index, new_index),
          !.depths = Insert(s.depths, candidate_index, s.depths[new_index] + 1)]

\* Expand trying the moves from the last to the first
RECURSIVE ExpandReversed(_, _, _, _, _)
ExpandReversed(self, s, new_index, new_state, k) ==
    IF k > Len(Moves) THEN s
    ELSE LET candidate == move_bunny_solve(self, new_state, PLAYER_INDEX,
                                           Moves[Len(Moves) + 1 - k])
         IN IF ~candidate.is_some THEN ExpandReversed(self, s, new_index, new_state, k + 1)
            ELSE IF candidate.val \in DOMAIN s.visited
                 THEN ExpandReversed(self, s, new_index, new_state, k + 1)
                 ELSE ExpandReversed(self, Discover(s, candidate.val, new_index),
                                     new_index, new_state, k + 1)

\* the for loop over [Up, Down, Left, Right], from its k-th move on
RECURSIVE Expand(_, _, _, _, _)
Expand(self, s, new_index, new_state, k) ==
    IF k > Len(Moves) THEN s
    ELSE LET candidate == move_bunny_solve(self, new_state, PLAYER_INDEX, Moves[k])
         IN IF ~candidate.is_some THEN Expand(self, s, new_index, new_state, k + 1)
            ELSE IF candidate.val \in DOMAIN s.visited
                 THEN Expand(self, s, new_index, new_state, k + 1)
                 ELSE Expand(self, Discover(s, candidate.val, new_index),
                             new_index, new_state, k + 1)

\* a depth check that stops at every entry below the root
DepthReachedBelowRoot(s, new_index) == s.depths[new_index] > 1

\* the depth check of the loop
DepthReached(s, new_index) == s.depths[new_index] = s.max_moves
\* the iters check of the loop
ItersReached(s, iters) == iters = s.max_iters

\* solve_step reading the front of the queue without taking it off
solve_step_front_kept(self, s) ==
    IF s.queue = <<>> THEN [s EXCEPT !.pc = "done", !.exit = "empty"]
    ELSE
      LET new_index == Head(s.queue)
          popped == [s EXCEPT !.iters = s.iters + 1]
          new_state == popped.states[new_index]
      IN IF check_win_solve(self, new_state)
         THEN [popped EXCEPT !.winning_index_opt = Some(new_index),
                             !.pc = "done", !.exit = "won"]
         ELSE IF ItersReached(popped, popped.iters)
              THEN [popped EXCEPT !.pc = "done", !.exit = "iters"]
              ELSE IF DepthReached(popped, new_index) THEN popped
                   ELSE Expand(self,
                               [popped EXCEPT !.expanded = popped.expanded \cup {new_index}],
                               new_index, new_state, 1)

\* one test of `while let Some(new_index) = queue.pop_front()` and, when the
\* queue is not empty, one run of the loop's body
solve_step(self, s) ==
    IF s.queue = <<>> THEN [s EXCEPT !.pc = "done", !.exit = "empty"]
    ELSE
      LET new_index == Head(s.queue)
          popped == [s EXCEPT !.queue = Tail(s.queue), !.iters = s.iters + 1]
          new_state == popped.states[new_index]
      IN IF check_win_solve(self, new_state)
         THEN [popped EXCEPT !.winning_index_opt = Some(new_index),
                             !.pc = "done", !.exit = "won"]
         ELSE IF ItersReached(popped, popped.iters)
              THEN [popped EXCEPT !.pc = "done", !.exit = "iters"]
              ELSE IF DepthReached(popped, new_index) THEN popped
                   ELSE Expand(self,
                               [popped EXCEPT !.expanded = popped.expanded \cup {new_index}],
                               new_index, new_state, 1)

\* path.push(states[winning_index]), then the parents up to the root
RECURSIVE PathBack(_, _)
PathBack(s, winning_index) ==
    IF winning_index \in DOMAIN s.parents
    THEN <<s.states[winning_index]>> \o PathBack(s, s.parents[winning_index])
    ELSE <<s.states[winning_index]>>

\* what solve returns once its loop is left
solve_result(s) ==
    IF ~s.winning_index_opt.is_some THEN None
    ELSE Some([path |-> Reverse(PathBack(s, s.winning_index_opt.val)),
               stats |-> [iters |-> s.iters, queue_len |-> Len(s.queue)]])

\* the loop run to its end
RECURSIVE solve_run(_, _)
solve_run(self, s) ==
    IF s.pc = "done" THEN s ELSE solve_run(self, solve_step(self, s))

\* State::solve(state, max_moves, max_iters)
solve(self, max_moves, max_iters) ==
    solve_result(solve_run(self, solve_start(self, max_moves, max_iters)))

\* ------------------------------------------------------------ main's loop

Idle == [pc |-> "idle"]
NoSoln == [path |-> <<>>]

\* the record of a command: its key, what it returned, the State before it,
\* and the key and return value of the command before it
Command(key, ret) ==
    [key |-> key, ret |-> ret, pre |-> state,
     prev |-> [key |-> last.key, ret |-> last.ret]]
\* the record before the first key
Loaded(self) ==
    [key |-> "load", ret |-> TRUE, pre |-> self, prev |-> [key |-> "load", ret |-> TRUE]]

\* main before its first key: level 1 loaded and displayed
Init ==
    /\ PUSH_MULTIPLE \in BOOLEAN
    /\ state = display(from_level_no(1).state)
    /\ pc = "keys"
    /\ soln = NoSoln
    /\ last = Loaded(display(from_level_no(1).state))
    /\ sv = Idle

\* Key::Up, Key::Down, Key::Left, Key::Right
KeyMove(m) ==
    /\ pc = "keys"
    /\ Len(state.history) < MaxHistory
    /\ LET r == move_bunny(state, PLAYER_INDEX, m)
       IN /\ state' = display(r.self)
          /\ last' = Command(m, r.ret)
    /\ UNCHANGED <<PUSH_MULTIPLE, pc, soln, sv>>

\* the 'r' branch without its history.push
reset_no_snapshot(self) ==
    [self EXCEPT !.bunnies = self.bunny_starts, !.move_no = 0]

\* the 'r' branch
reset(self) ==
    [self EXCEPT
        !.history = Append(self.history,
                           [move_no |-> self.move_no, bunnies |-> self.bunnies]),
        !.bunnies = self.bunny_starts,
        !.move_no = 0]

KeyReset ==
    /\ pc = "keys"
    /\ Len(state.history) < MaxHistory
    /\ state' = display(reset(state))
    /\ last' = Command("r", TRUE)
    /\ UNCHANGED <<PUSH_MULTIPLE, pc, soln, sv>>

\* the 'z' branch without `state.move_no = last_state.move_no`
undo_keeps_counter(self) ==
    IF self.history # <<>>
    THEN [self EXCEPT !.history = Front(self.history),
                      !.bunnies = Last(self.history).bunnies]
    ELSE self

\* the 'z' branch
undo(self) ==
    IF self.history # <<>>
    THEN LET last_state == Last(self.history)
         IN [self EXCEPT !.history = Front(self.history),
                         !.bunnies = last_state.bunnies,
                         !.move_no = last_state.move_no]
    ELSE self

KeyUndo ==
    /\ pc = "keys"
    /\ state' = display(undo(state))
    /\ last' = Command("z", state.history # <<>>)
    /\ UNCHANGED <<PUSH_MULTIPLE, pc, soln, sv>>

\* `state = State::from_level_no(..)?`: the new State, or main returns the error
LoadLevel(key, level_no) ==
    LET loaded == from_level_no(level_no)
    IN /\ pc = "keys"
       /\ IF loaded.ok
          THEN /\ state' = display(loaded.state)
               /\ pc' = "keys"
          ELSE /\ state' = state
               /\ pc' = "exited"
       /\ last' = Command(key, loaded.ok)
       /\ UNCHANGED <<PUSH_MULTIPLE, soln, sv>>

\* the 'b' branch: level_no.saturating_sub(1)
KeyBack == LoadLevel("b", IF state.level_no = 0 THEN 0 ELSE state.level_no - 1)

\* the 'n' branch
KeyNext == LoadLevel("n", state.level_no + 1)

\* the 's' branch up to its for loop
KeySolve ==
    /\ pc = "keys"
    /\ state.move_no < MaxMoveNo
    /\ LET found == solve(state, MAX_MOVES, MAX_ITERS)
       IN /\ IF found.is_some
             THEN /\ soln' = found.val
                  /\ pc' = "replay"
             ELSE /\ soln' = NoSoln
                  /\ pc' = "keys"
          /\ last' = Command("s", found.is_some)
    /\ UNCHANGED <<PUSH_MULTIPLE, state, sv>>

\* one turn of `for elt in soln.0`; after the last one, back to the keys
ReplayStep ==
    /\ pc = "replay"
    /\ LET elt == Head(soln.path)
           shown == display([state EXCEPT !.bunnies = elt])
       IN state' = [shown EXCEPT !.move_no = shown.move_no + 1]
    /\ soln' = [soln EXCEPT !.path = Tail(soln.path)]
    /\ pc' = IF Tail(soln.path) = <<>> THEN "keys" ELSE "replay"
    /\ UNCHANGED <<PUSH_MULTIPLE, last, sv>>

\* the 'q' branch
KeyQuit ==
    /\ pc = "keys"
    /\ pc' = "exited"
    /\ last' = Command("q", TRUE)
    /\ UNCHANGED <<PUSH_MULTIPLE, state, soln, sv>>

Next ==
    \/ \E m \in MoveSet : KeyMove(m)
    \/ KeyReset
    \/ KeyUndo
    \/ KeyBack
    \/ KeyNext
    \/ KeySolve
    \/ ReplayStep
    \/ KeyQuit

Spec == Init /\ [][Next]_vars

\* ------------------------------------------------- solve, called on its own

\* the cells that are not trees
FreeCells(board) ==
    {<<i, j>> : i \in DOMAIN board, j \in DOMAIN board[0]} \cap
    {p \in (DOMAIN board) \X (DOMAIN board[0]) : board[p[1]][p[2]] # "Tree"}

\* the placements of n bunnies on pairwise distinct cells that are not trees:
\* the starting vectors of the level files with this board
Arrangements(board, n) ==
    {b \in [0..(n - 1) -> FreeCells(board)] :
        \A i, j \in 0..(n - 1) : i # j => b[i] # b[j]}

\* a State loaded from a level file, and solve not yet called
SolveInit ==
    /\ PUSH_MULTIPLE \in BOOLEAN
    /\ \E level_no \in 1..Len(LevelFiles) :
         LET loaded == from_level_no(level_no).state
         IN \E b \in Arrangements(loaded.board, VLen(loaded.bunnies)) :
              state = display([loaded EXCEPT !.bunnies = b, !.bunny_starts = b])
    /\ pc = "keys"
    /\ soln = None
    /\ last = Loaded(state)
    /\ sv = Idle

\* solve is called: its locals before the loop
SolveCall(max_moves, max_iters) ==
    /\ sv.pc = "idle"
    /\ sv' = solve_start(state, max_moves, max_iters)
    /\ UNCHANGED <<PUSH_MULTIPLE, state, pc, soln, last>>

\* one turn of the while loop
SolveLoop ==
    /\ sv.pc = "loop"
    /\ sv' = solve_step(state, sv)
    /\ UNCHANGED <<PUSH_MULTIPLE, state, pc, soln, last>>

\* the path is rebuilt and solve returns
SolveReturn ==
    /\ sv.pc = "done"
    /\ sv' = [sv EXCEPT !.pc = "returned"]
    /\ soln' = solve_result(sv)
    /\ UNCHANGED <<PUSH_MULTIPLE, state, pc, last>>

\* the budgets solve is called with: the small ones, those of main, and
\* those of the one-move scenario (max_moves = 5, max_iters = 1000)
ScenarioBudgets == [max_moves |-> 5, max_iters |-> 1000]
MaxMovesArgs == (0..MaxMovesArg) \cup {ScenarioBudgets.max_moves, MAX_MOVES}
MaxItersArgs == (0..MaxItersArg) \cup {ScenarioBudgets.max_iters, MAX_ITERS}

SolveNext ==
    \/ \E max_moves \in MaxMovesArgs, max_iters \in MaxItersArgs :
          SolveCall(max_moves, max_iters)
    \/ SolveLoop
    \/ SolveReturn

SolveSpec == SolveInit /\ [][SolveNext]_vars

\* solve runs on the calling thread and nothing else runs: a turn of the
\* loop that can be taken is taken, and so is the return
\* The weak fairness of
\* SolveLoop is written out, WF_vars(A) being <>[](ENABLED <<A>>_vars) =>
\* []<><<A>>_vars: a turn of the loop can be taken exactly when sv.pc = "loop"
\* (it always changes sv: iters grows or the loop is left).
FairSolveSpec ==
    /\ SolveSpec
    /\ <>[](sv.pc = "loop") => []<><<SolveLoop>>_vars
    /\ WF_vars(SolveReturn)

\* ================================================================ claims

\* one cell further in direction m, on the integer grid
Shift(p, m) ==
    IF m = "Up" THEN <<p[1] - 1, p[2]>>
    ELSE IF m = "Down" THEN <<p[1] + 1, p[2]>>
    ELSE IF m = "Left" THEN <<p[1], p[2] - 1>>
    ELSE <<p[1], p[2] + 1>>

\* the sleepies (slots 1..) of an entity vector
Sleepies(bunnies) == (DOMAIN bunnies) \ {0}

\* the push chain of a move of the player: the player, and each entity on
\* the destination of the entity behind it
RECURSIVE ChainFrom(_, _, _)
ChainFrom(bunnies, i, m) ==
    LET ahead == {j \in DOMAIN bunnies : bunnies[j] = Shift(bunnies[i], m)}
    IN IF ahead = {} THEN {i}
       ELSE {i} \cup ChainFrom(bunnies, CHOOSE j \in ahead : TRUE, m)
Chain(bunnies, m) == ChainFrom(bunnies, PLAYER_INDEX, m)

\* the last command was a move of the player
Moved == pc # "exited" /\ last.key \in MoveSet

\* C1: a move of the player that move_bunny rejects leaves the entity
\* vector, the move counter and the undo history exactly as they were.
C1_FailureNonMutation ==
    (Moved /\ ~last.ret) =>
        /\ state.bunnies = last.pre.bunnies
        /\ state.move_no = last.pre.move_no
        /\ state.history = last.pre.history

\* a push of two sleepies in a row was rejected (the chain ran into a tree)
C1_Witness ==
    /\ Moved /\ ~last.ret /\ PUSH_MULTIPLE
    /\ Cardinality(Chain(last.pre.bunnies, last.key)) = 3

\* C2: a move of the player that move_bunny accepts advances every entity
\* of the push chain by one cell, leaves the others where they were, adds 1
\* to the move counter and pushes one snapshot: the entity vector and the
\* move counter from before the move.  Both pushing policies are explored.
C2_ChainAtomicity ==
    (Moved /\ last.ret) =>
        LET before == last.pre.bunnies
            chain == Chain(before, last.key)
        IN /\ DOMAIN state.bunnies = DOMAIN before
           /\ \A i \in DOMAIN before :
                state.bunnies[i] =
                    IF i \in chain THEN Shift(before[i], last.key) ELSE before[i]
           /\ state.move_no = last.pre.move_no + 1
           /\ state.history =
                Append(last.pre.history,
                       [move_no |-> last.pre.move_no, bunnies |-> before])

\* the player pushed two sleepies at once: a chain of three entities advanced
C2_Witness ==
    /\ Moved /\ last.ret
    /\ Cardinality(Chain(last.pre.bunnies, last.key)) = 3

\* C3: an undo straight after an accepted move of the player gives back the
\* entity vector, the move counter and the history from before the move.
C3_UndoInverse ==
    [][(Moved /\ last.ret /\ pc' = "keys" /\ last'.key = "z") =>
          /\ state'.bunnies = last.pre.bunnies
          /\ state'.move_no = last.pre.move_no
          /\ state'.history = last.pre.history]_vars

\* an undo was applied straight after an accepted push
C3_Witness ==
    /\ pc = "keys" /\ last.key = "z"
    /\ last.prev.key \in MoveSet /\ last.prev.ret
    /\ \E i \in Sleepies(state.bunnies) : state.bunnies[i] # last.pre.bunnies[i]

\* C4: whenever main waits for a key or is between two steps of a replay,
\* the win flag says whether every sleepy is in a bed (which is not whether
\* every bed holds a sleepy).
C4_WinFlagFresh ==
    state.won = ({state.bunnies[i] : i \in Sleepies(state.bunnies)} \subseteq state.beds)

\* an accepted move won a level that has a bed left empty
C4_Witness ==
    /\ Moved /\ last.ret /\ state.won /\ ~last.pre.won
    /\ \E bed \in state.beds : \A i \in Sleepies(state.bunnies) : state.bunnies[i] # bed

\* C9: reset pushes one snapshot of the current entity vector and move
\* counter, then puts the entities on their starting cells and the counter
\* to 0; an undo straight after it gives back the entity vector, the move
\* counter and the history from before the reset.
C9_ResetUndoable ==
    [][/\ (pc' = "keys" /\ last'.key = "r") =>
             /\ state'.history =
                  Append(state.history,
                         [move_no |-> state.move_no, bunnies |-> state.bunnies])
             /\ state'.bunnies = state.bunny_starts
             /\ state'.move_no = 0
       /\ (pc = "keys" /\ last.key = "r" /\ pc' = "keys" /\ last'.key = "z") =>
             /\ state'.bunnies = last.pre.bunnies
             /\ state'.move_no = last.pre.move_no
             /\ state'.history = last.pre.history]_vars

\* an undo was applied straight after a reset that had undone a push
C9_Witness ==
    /\ pc = "keys" /\ last.key = "z" /\ last.prev.key = "r"
    /\ state.move_no > 0
    /\ \E i \in Sleepies(state.bunnies) : state.bunnies[i] # state.bunny_starts[i]

\* the default policy on one move of the player from entity vector `before`:
\* `ok` is whether the move was accepted, `after` the vector it left
DefaultPolicy(board, before, m, ok, after) ==
    LET dest == Shift(before[PLAYER_INDEX], m)
        beyond == Shift(dest, m)
        pushed == \E i \in Sleepies(before) : before[i] = dest
    IN /\ (ok /\ pushed) =>
            /\ board[beyond[1]][beyond[2]] # "Tree"
            /\ \A j \in DOMAIN before : before[j] # beyond
       /\ (pushed /\ \E j \in DOMAIN before : before[j] = beyond) => ~ok
       /\ ok => Cardinality({i \in Sleepies(before) : after[i] # before[i]}) <= 1

\* C10: with PUSH_MULTIPLE = false a move of the player onto a sleepy is
\* accepted only if the cell behind the sleepy is no tree and holds no
\* entity; it is rejected if that cell holds an entity; an accepted move
\* moves at most one sleepy.  Both move_bunny (the last command) and
\* move_bunny_solve (on the current entity vector) are held to it.
C10_DefaultPolicy ==
    ~PUSH_MULTIPLE =>
        /\ Moved => DefaultPolicy(state.board, last.pre.bunnies, last.key,
                                  last.ret, state.bunnies)
        /\ \A m \in MoveSet :
             LET r == move_bunny_solve(state, state.bunnies, PLAYER_INDEX, m)
             IN DefaultPolicy(state.board, state.bunnies, m, r.is_some,
                              IF r.is_some THEN r.val ELSE state.bunnies)

\* under the default policy the player ran into two sleepies in a row, with
\* room behind them, and was rejected
C10_Witness ==
    /\ Moved /\ ~last.ret /\ ~PUSH_MULTIPLE
    /\ LET dest == Shift(last.pre.bunnies[PLAYER_INDEX], last.key)
           beyond == Shift(dest, last.key)
           far == Shift(beyond, last.key)
       IN /\ \E i \in Sleepies(state.bunnies) : last.pre.bunnies[i] = dest
          /\ \E j \in Sleepies(state.bunnies) : last.pre.bunnies[j] = beyond
          /\ state.board[far[1]][far[2]] # "Tree"

\* ------------------------------------------------------ claims about solve

\* every sleepy of an entity vector is in a bed
AllInBed(self, bunnies) == {bunnies[i] : i \in Sleepies(bunnies)} \subseteq self.beds

\* the entity vectors one accepted move of the player away, by move_bunny
PlayerMoves(self, bunnies) ==
    {move_bunny([self EXCEPT !.bunnies = bunnies], PLAYER_INDEX, m).self.bunnies :
        m \in {m \in MoveSet :
                 move_bunny([self EXCEPT !.bunnies = bunnies], PLAYER_INDEX, m).ret}}

\* the least number of player moves from a set of entity vectors, all d
\* moves from the start, to a vector with every sleepy in a bed
RECURSIVE MovesToWin(_, _, _, _)
MovesToWin(self, frontier, seen, d) ==
    IF \E b \in frontier : AllInBed(self, b) THEN Some(d)
    ELSE IF frontier = {} THEN None
    ELSE LET next == (UNION {PlayerMoves(self, b) : b \in frontier}) \ seen
         IN MovesToWin(self, next, seen \cup next, d + 1)
MinMoves(self) == MovesToWin(self, {self.bunnies}, {self.bunnies}, 0)

\* solve has returned
Returned == sv.pc = "returned"

\* C5: a path returned by solve starts with the entity vector solve was
\* called with, ends with every sleepy in a bed, and each of its vectors is
\* what move_bunny for the player leaves of the vector before it, for some
\* direction.
C5_SolverSound ==
    (Returned /\ soln.is_some) =>
        LET path == soln.val.path
        IN /\ Len(path) >= 1
           /\ path[1] = state.bunnies
           /\ AllInBed(state, path[Len(path)])
           /\ \A k \in 1..(Len(path) - 1) : path[k + 1] \in PlayerMoves(state, path[k])

\* solve returned a path of at least two moves along which a sleepy was pushed
C5_Witness ==
    /\ Returned /\ soln.is_some
    /\ Len(soln.val.path) >= 3
    /\ \E i \in Sleepies(state.bunnies) :
          soln.val.path[Len(soln.val.path)][i] # state.bunnies[i]

\* C6: if at most max_moves moves of the player lead to a vector with every
\* sleepy in a bed and the loop was not left by the iters check, solve
\* returns a path, and the path has the least number of moves.
C6_SolverOptimal ==
    Returned =>
        LET least == MinMoves(state)
        IN IF least.is_some
           THEN (least.val <= sv.max_moves /\ sv.exit # "iters") =>
                    (soln.is_some /\ Len(soln.val.path) - 1 = least.val)
           ELSE TRUE

\* C7: a path returned by solve has at most max_moves moves, and no vector
\* whose depth is max_moves is expanded.
C7_DepthBudget ==
    /\ \A i \in (IF sv.pc = "idle" THEN {} ELSE sv.expanded) : sv.depths[i] # sv.max_moves
    /\ (Returned /\ soln.is_some) => Len(soln.val.path) - 1 <= sv.max_moves

\* C8: solve takes at most max_iters vectors off the queue, and when the
\* loop is left by the iters check solve returns no solution.
C8_IterBudget ==
    sv.pc # "idle" =>
        /\ sv.iters <= sv.max_iters
        /\ (Returned /\ sv.exit = "iters") => ~soln.is_some

\* the loop was left with no winning vector after a budget cut the search:
\* by the iters check, or with a vector of depth max_moves left unexpanded
BudgetConsumed ==
    /\ Returned /\ ~sv.winning_index_opt.is_some
    /\ \/ sv.exit = "iters"
       \/ \E i \in DOMAIN sv.depths : sv.depths[i] = sv.max_moves

\* C11: when a budget stops solve short of a win, what solve returns carries
\* the diagnostic counters: the iterations consumed and the length of the
\* queue.
C11_ExhaustionDiagnostics ==
    BudgetConsumed =>
        /\ "stats" \in DOMAIN soln
        /\ soln.stats.iters = sv.iters
        /\ soln.stats.queue_len = Len(sv.queue)

\* a position inside the grid, on a tile that is no tree
OnOpenTile(board, p) ==
    /\ p[1] \in DOMAIN board
    /\ p[2] \in DOMAIN board[p[1]]
    /\ board[p[1]][p[2]] # "Tree"

\* C12: in every state main reaches by moves, undos, resets and solve
\* replays the entity vector is as long as at load, every entity is inside
\* the grid on a tile that is no tree, and no two entities share a cell.
C12_WellFormed ==
    /\ DOMAIN state.bunnies = DOMAIN state.bunny_starts
    /\ \A i \in DOMAIN state.bunnies : OnOpenTile(state.board, state.bunnies[i])
    /\ \A i, j \in DOMAIN state.bunnies : i # j => state.bunnies[i] # state.bunnies[j]

\* a push was accepted right after an undo, with earlier moves still counted
C12_Witness ==
    /\ Moved /\ last.ret /\ last.prev.key = "z"
    /\ state.move_no > 1
    /\ \E i \in Sleepies(state.bunnies) : state.bunnies[i] # last.pre.bunnies[i]

\* ------------------------------------------------------ from_file on its own

\* the most lines a level text has
MaxRows == 3

\* lines a level text is made of: bordered and unbordered, with and without
\* a player, of different lengths, one with an unknown character
TextRows ==
    { <<"#", "#", "#", "#">>,
      <<"#", "@", "$", "#">>,
      <<"#", " ", ".", "#">>,
      <<"#", "$", " ", "#">>,
      <<"#", "+", "*", "#">>,
      <<"#", "?", "#", "#">>,
      <<" ", "$", ".", "#">>,
      <<"@", " ", "$">> }

\* the level texts: every file of at most MaxRows of these lines
LevelTexts == UNION {[1..n -> TextRows] : n \in 0..MaxRows}

\* main before State::from_file has run: there is no State yet
NoState == [level_no |-> 0]

LoadInit ==
    /\ PUSH_MULTIPLE \in BOOLEAN
    /\ state = NoState
    /\ pc = "start"
    /\ soln = NoSoln
    /\ last = [key |-> "start", ret |-> TRUE, pre |-> <<>>,
               prev |-> [key |-> "start", ret |-> TRUE]]
    /\ sv = Idle

\* `let mut state = State::from_file(..)?; display(..)`: the text is the
\* content of the file; an Err ends main before any State exists
LoadFile(text) ==
    LET loaded == from_file(text, 1)
    IN /\ pc = "start"
       /\ IF loaded.ok
          THEN /\ state' = display(loaded.state)
               /\ pc' = "keys"
          ELSE /\ state' = state
               /\ pc' = "exited"
       /\ last' = [key |-> "load", ret |-> loaded.ok, pre |-> text,
                   prev |-> [key |-> last.key, ret |-> last.ret]]
       /\ UNCHANGED <<PUSH_MULTIPLE, soln, sv>>

LoadNext == \E text \in LevelTexts : LoadFile(text)

LoadSpec == LoadInit /\ [][LoadNext]_vars

\* the text holds a player symbol
HasPlayerSymbol(text) ==
    \E i \in 1..Len(text) : \E j \in 1..Len(text[i]) : text[i][j] \in {"@", "b", "+", "p"}

\* every cell of the first and last row and column is a tree
TreeBordered(board) ==
    \A i \in DOMAIN board : \A j \in DOMAIN board[i] :
        (i \in {0, VLen(board) - 1} \/ j \in {0, VLen(board[i]) - 1})
            => board[i][j] = "Tree"

\* every tile a first call of move_bunny_solve reads is on the board, and
\* no bunny's destination is its own cell (a bunny in its own way)
LookupTotal(self) ==
    \A i \in DOMAIN self.bunnies : \A m \in MoveSet :
        /\ ~OutOfBounds(self.board, Dest(self.bunnies[i], m))
        /\ Dest(self.bunnies[i], m) # self.bunnies[i]

\* C13: a level text is accepted only if it holds a player symbol and its
\* border is all trees, so that on every accepted level the tile lookups of
\* the move engine and the solver stay on the board.
C13_LoadValidates ==
    (pc = "keys") =>
        /\ HasPlayerSymbol(last.pre)
        /\ TreeBordered(state.board)
        /\ LookupTotal(state)

\* C14: a 'b' or 'n' that asks for a level that does not exist leaves main
\* running, with the State (level number, bunnies, counter, history) as it
\* was before the key.
C14_LevelRangeRecoverable ==
    (last.key \in {"b", "n"} /\ ~last.ret) =>
        /\ pc # "exited"
        /\ state = last.pre

\* the start of the one-move scenario: one sleepy, not won, and the player's
\* move Right pushes the sleepy into a bed
OneMoveStart(self) ==
    /\ VLen(self.bunnies) = 2
    /\ ~check_win_solve(self, self.bunnies)
    /\ LET right == move_bunny(self, PLAYER_INDEX, "Right")
       IN /\ right.ret
          /\ right.self.bunnies[1] # self.bunnies[1]
          /\ check_win_solve(self, right.self.bunnies)

\* solve has returned from the scenario's call
OneMoveSolved ==
    /\ Returned
    /\ sv.max_moves = ScenarioBudgets.max_moves
    /\ sv.max_iters = ScenarioBudgets.max_iters
    /\ OneMoveStart(state)

\* the moves tried before Right that the player can make from the start
EarlierMoves(self) ==
    {m \in {"Up", "Down", "Left"} : move_bunny(self, PLAYER_INDEX, m).ret}

\* C15 as stated: the one-move scenario returns the path of the single move
\* Right, only the root has been expanded, and the iteration count reported
\* is that of the single expansion.
C15_OneMoveScenario ==
    OneMoveSolved =>
        /\ soln.is_some
        /\ soln.val.path = <<state.bunnies, move_bunny(state, PLAYER_INDEX, "Right").self.bunnies>>
        /\ sv.expanded = {0}
        /\ soln.val.stats.iters = 1

\* C15, amended: the one-move scenario returns the path of the single move
\* Right; the vectors expanded are the root and one vector for each of Up,
\* Down and Left the player can make from the start, and the iteration count
\* reported is one more than the number of vectors expanded (the dequeue of
\* the won vector is counted).
C15_OneMoveScenarioCounted ==
    OneMoveSolved =>
        /\ soln.is_some
        /\ soln.val.path = <<state.bunnies, move_bunny(state, PLAYER_INDEX, "Right").self.bunnies>>
        /\ 0 \in sv.expanded
        /\ Cardinality(sv.expanded) = 1 + Cardinality(EarlierMoves(state))
        /\ soln.val.stats.iters = Cardinality(sv.expanded) + 1

\* the scenario solved from a start where the player can also step aside
C15_Witness ==
    /\ OneMoveSolved
    /\ EarlierMoves(state) # {}
    /\ soln.is_some

\* the entity vectors the player's moves lead to from a set of vectors
RECURSIVE Closure(_, _, _)
Closure(self, frontier, seen) ==
    IF frontier = {} THEN seen
    ELSE LET next == (UNION {PlayerMoves(self, b) : b \in frontier}) \ seen
         IN Closure(self, next, seen \cup next)
Reachable(self) == Closure(self, {self.bunnies}, {self.bunnies})

\* the entity vectors in the arena of solve
Arena == IF sv.pc = "idle" THEN {} ELSE {sv.states[i] : i \in DOMAIN sv.states}

\* solve has returned with its queue run empty, without an arena entry at
\* the depth of the depth check
FrontierExhausted ==
    /\ Returned /\ sv.exit = "empty"
    /\ \A i \in DOMAIN sv.depths : sv.depths[i] # sv.max_moves

\* C16: no entity vector is in the arena twice; and when no vector with
\* every sleepy in a bed can be reached and neither budget was reached,
\* solve returns None with iters the number of distinct vectors the player's
\* moves reach from the start, the arena holding exactly those vectors, each
\* one taken off the queue and expanded.
C16_FrontierExhaustion ==
    /\ sv.pc # "idle" =>
          \A i, j \in DOMAIN sv.states : sv.states[i] = sv.states[j] => i = j
    /\ (FrontierExhausted /\ ~MinMoves(state).is_some) =>
          /\ ~soln.is_some
          /\ sv.iters = Cardinality(Reachable(state))
          /\ Arena = Reachable(state)
          /\ sv.expanded = DOMAIN sv.states
          /\ sv.queue = <<>>

\* solve, with main's budgets, ran its queue empty on a start with several
\* reachable vectors and a sleepy the player can still push
C16_Witness ==
    /\ FrontierExhausted /\ ~MinMoves(state).is_some
    /\ sv.max_moves = MAX_MOVES /\ sv.max_iters = MAX_ITERS
    /\ sv.iters >= 3
    /\ \E b \in Arena : \E i \in Sleepies(b) : b[i] # state.bunnies[i]

\* the order of the tie-break: Up < Down < Left < Right
TieBreakOrder == <<"Up", "Down", "Left", "Right">>

\* the least number of moves from an entity vector to a won one
MinMovesFrom(self, bunnies) == MinMoves([self EXCEPT !.bunnies = bunnies])

\* the vector the player's move leaves, by move_bunny
AfterMove(self, bunnies, m) ==
    move_bunny([self EXCEPT !.bunnies = bunnies], PLAYER_INDEX, m).self.bunnies

\* the places in TieBreakOrder of the moves that start a solution of d moves
\* from an entity vector
FirstMoves(self, bunnies, d) ==
    {k \in 1..Len(TieBreakOrder) :
        /\ move_bunny([self EXCEPT !.bunnies = bunnies], PLAYER_INDEX, TieBreakOrder[k]).ret
        /\ MinMovesFrom(self, AfterMove(self, bunnies, TieBreakOrder[k])) = Some(d - 1)}

\* the vectors along the solution of d moves whose move sequence is the
\* least in the lexicographic order, the start left out
RECURSIVE LexFirst(_, _, _)
LexFirst(self, bunnies, d) ==
    IF d = 0 THEN <<>>
    ELSE LET first == FirstMoves(self, bunnies, d)
             k == CHOOSE k \in first : \A other \in first : k <= other
             next == AfterMove(self, bunnies, TieBreakOrder[k])
         IN <<next>> \o LexFirst(self, next, d - 1)

\* C17: the path solve returns is the one of the least number of moves whose
\* move sequence is the least in the lexicographic order under
\* Up < Down < Left < Right: a function of the board, the beds and the start
\* alone, whatever the budgets.
C17_TieBreak ==
    (Returned /\ soln.is_some) =>
        soln.val.path =
            <<state.bunnies>> \o LexFirst(state, state.bunnies, Len(soln.val.path) - 1)

\* solve returned a path from a start with more than one shortest solution
C17_Witness ==
    /\ Returned /\ soln.is_some
    /\ Cardinality(FirstMoves(state, state.bunnies, Len(soln.val.path) - 1)) > 1

\* the entity vectors of SolveSpec's start are on open tiles and distinct
\* (the precondition of C18)
DistinctOpen(self, bunnies) ==
    /\ \A i \in DOMAIN bunnies : OnOpenTile(self.board, bunnies[i])
    /\ \A i, j \in DOMAIN bunnies : i # j => bunnies[i] # bunnies[j]

\* C18: on every bordered level, for every entity vector on distinct open
\* tiles and every direction, move_bunny_solve for the player returns
\* Some(v) exactly when move_bunny for the player returns true on a State
\* holding the vector, and v is then the State's vector after the call; it
\* returns None exactly when move_bunny returns false.  The vector solve
\* hands to move_bunny_solve (the root of the arena) stays as it was.
C18_EnginesAgree ==
    /\ DistinctOpen(state, state.bunnies) =>
          \A m \in MoveSet :
              LET pure == move_bunny_solve(state, state.bunnies, PLAYER_INDEX, m)
                  mutating == move_bunny(state, PLAYER_INDEX, m)
              IN /\ pure.is_some = mutating.ret
                 /\ pure.is_some => pure.val = mutating.self.bunnies
    /\ sv.pc # "idle" => sv.states[0] = state.bunnies

\* solve has expanded a root from which both engines accept a push of two
\* sleepies in a row, and the pushed vector is in the arena
C18_Witness ==
    /\ sv.pc # "idle" /\ 0 \in sv.expanded
    /\ DistinctOpen(state, state.bunnies)
    /\ \E m \in MoveSet :
          LET pure == move_bunny_solve(state, state.bunnies, PLAYER_INDEX, m)
          IN /\ pure.is_some
             /\ move_bunny(state, PLAYER_INDEX, m).ret
             /\ pure.val \in Arena
             /\ Cardinality({i \in DOMAIN state.bunnies : pure.val[i] # state.bunnies[i]}) = 3

\* the entity vectors there are on the board of the start
AllVectors == Arrangements(state.board, VLen(state.bunnies))

\* what every turn of the loop that takes an entry off the queue lowers: the
\* entries on the queue, and Len(Moves) + 1 for every vector not yet in the arena
Rank ==
    IF sv.pc = "idle" THEN 0
    ELSE Len(sv.queue) + (Len(Moves) + 1) * (Cardinality(AllVectors) - VLen(sv.states))

\* C19: a call of solve returns, whatever the budgets: a turn of the loop is
\* always possible while solve is in its loop, the arena never holds more
\* entries than there are entity vectors, and every turn of the loop either
\* leaves the loop or takes one entry off the queue and adds only vectors
\* that were not in the arena.
C19_SolveTerminates ==
    /\ [](sv.pc = "loop" => solve_step(state, sv) # sv)
    /\ [](Rank >= 0)
    /\ [][(sv.pc = "loop" /\ sv'.pc = "loop") => Rank' < Rank]_vars
    /\ (sv.pc = "loop") ~> Returned

\* solve returned with budgets beyond the number of entity vectors, its
\* queue run empty
C19_Witness ==
    /\ Returned /\ sv.exit = "empty"
    /\ sv.max_moves > Cardinality(AllVectors)
    /\ sv.max_iters > Cardinality(AllVectors)
    /\ sv.iters = VLen(sv.states)
    /\ sv.iters > 1

\* the 's' key found a solution and its replay has ended
Replayed == pc = "keys" /\ last.key = "s" /\ last.ret

\* C20: after a successful solve command the entity vector is the last
\* vector of the returned path, the win flag is set, and the move counter is
\* its value before the command plus the number of moves of the path (the
\* number of its vectors minus one).
C20_ReplayBookkeeping ==
    Replayed =>
        LET path == solve(last.pre, MAX_MOVES, MAX_ITERS).val.path
        IN /\ state.bunnies = Last(path)
           /\ state.won
           /\ state.move_no = last.pre.move_no + Len(path) - 1
====
